---- MODULE Spec2Model ----
(***************************************************************************)
(* A model of script/testing/replication/log_throughput/log_throughput.py  *)
(* (cmu-db/terrier): the orchestration of one log-throughput measurement   *)
(* (log_throughput), the construction of its node list (get_servers), the  *)
(* synchronisation of primary and replicas (sync_servers) and the          *)
(* aggregation of a metrics file (aggregate_log_throughput).               *)
(*                                                                         *)
(* node_server.py, metrics_file_util.py, constants.py and utils_sql.py are *)
(* modelled by their contracts as the specification describes them:        *)
(* NodeServer (setup, run, is_running, teardown), the metrics-file helpers *)
(* and replica_sync. A server process that dies on its own is not          *)
(* modelled: a Node stops running only through a failed or a torn-down     *)
(* call.                                                                   *)
(***************************************************************************)
EXTENDS Integers, Sequences, FiniteSets, TLC

\* ------------------------------------------------------------------ bounds

\* Longest metrics file (in records) a server process writes, and the longest
\* record sequence handed to the aggregator on its own.
MaxRecords == 3

\* Longest server list handed to log_throughput's body when the list is not
\* the one get_servers builds (SpecAny).
MaxNodes == 2

\* Polls replica_sync makes before it gives up with a timeout.
MaxPolls == 1

\* Log records the primary produces at most.
MaxLog == 1

\* ------------------------------------------------------- names and constants

PRIMARY == "primary"
REPLICA == "replica"
TestTypes == {PRIMARY, REPLICA}

LOG_SERIALIZER_CSV == "log_serializer_task.csv"
DISK_LOG_CONSUMER_CSV == "disk_log_consumer_task.csv"
RECOVERY_MANAGER_CSV == "recovery_manager.csv"

\* The candidate metrics files, in the order the module-level list holds them.
METRICS_FILES_INIT == <<LOG_SERIALIZER_CSV, DISK_LOG_CONSUMER_CSV, RECOVERY_MANAGER_CSV>>

CandidateFiles == {METRICS_FILES_INIT[k] : k \in 1..Len(METRICS_FILES_INIT)}

None == "None"
OutputFileArgs == {None, "out.csv"}

\* An exception a call can end with: RuntimeError, which log_throughput's first
\* handler catches, or any other one (util/common.py raises Exception, and
\* util/test_oltpbench.py leaves through sys.exit).
Kinds == {"RuntimeError", "OtherError"}
Outcomes == {"ok"} \cup Kinds

VARIABLES
  METRICS_FILES,   \* the process-wide list of candidate metrics files
  fileExists,      \* the metrics files present in the working directory
  fileRecs,        \* their records
  resultsDir,      \* whether the results directory exists
  resultNames,     \* the files in the results directory
  resultRecs,      \* their records
  pc,              \* the position of log_throughput
  idx,             \* the position of its current for loop (1-based)
  testType, replicationEnabled, outputFile, metricsFile,
  servers,         \* the Nodes of this invocation, with their state
  produced,        \* log records the primary has produced
  polls,           \* polls replica_sync has made
  syncOutcome,     \* how sync_servers ended
  waitStarted,     \* whether replica_sync was called
  calls,           \* the calls log_throughput has made, in order
  logged,          \* what was written to LOG
  outcome,         \* how the invocation ended
  aggregated,      \* what aggregate_log_throughput was invoked on, and its result
  aggInput, aggOut \* the aggregator on its own: its input and its result

fsVars == <<fileExists, fileRecs, resultsDir, resultNames, resultRecs>>
argVars == <<testType, replicationEnabled, outputFile, metricsFile>>
syncVars == <<produced, polls, syncOutcome, waitStarted>>
aggVars == <<aggInput, aggOut>>
vars == <<METRICS_FILES, fsVars, pc, idx, argVars, servers, syncVars, calls,
          logged, outcome, aggregated, aggVars>>

\* ------------------------------------------------------------ sequences

Range(s) == {s[k] : k \in 1..Len(s)}

\* list.remove(x): the list without the first occurrence of x.
RECURSIVE Remove(_, _)
Remove(s, x) ==
  IF s = <<>> THEN <<>>
  ELSE IF Head(s) = x THEN Tail(s)
  ELSE <<Head(s)>> \o Remove(Tail(s), x)

RECURSIVE SumRecords(_)
SumRecords(df) ==
  IF df = <<>> THEN 0 ELSE Head(df).num_records + SumRecords(Tail(df))

\* ------------------------------------------------------------------ Node

\* A freshly constructed NodeServer of the given role (PrimaryNode or
\* ReplicaNode). alive is what is_running() reports; setup_ok tells that
\* setup() returned normally; setups, runs and teardowns count the calls made
\* on it; applied is the log position a replica has applied.
Node(role) ==
  [role |-> role, state |-> "Created", alive |-> FALSE, setup_ok |-> FALSE,
   setups |-> 0, runs |-> 0, teardowns |-> 0, applied |-> 0]

\* Node.setup(): on success the process is up; on failure it may or may not
\* have been spawned.
NodeSetup(n, res, up) ==
  IF res = "ok"
  THEN [n EXCEPT !.state = "Running", !.alive = TRUE, !.setup_ok = TRUE, !.setups = @ + 1]
  ELSE [n EXCEPT !.state = "Failed", !.alive = up, !.setups = @ + 1]

\* Node.run(): starts the workload; a failure may take the process down.
NodeRun(n, res, up) ==
  IF res = "ok"
  THEN [n EXCEPT !.runs = @ + 1]
  ELSE [n EXCEPT !.state = "Failed", !.alive = up, !.runs = @ + 1]

\* Node.is_running(): liveness, without side effects.
IsRunning(n) == n.alive

\* Node.teardown(): stops the process. It never raises from a state in which
\* nothing was started; when it raises, the process may survive.
NodeTeardown(n, res, up) ==
  IF res = "ok"
  THEN [n EXCEPT !.state = "TornDown", !.alive = FALSE, !.teardowns = @ + 1]
  ELSE [n EXCEPT !.alive = up, !.teardowns = @ + 1]

TeardownMayRaise(n) == n.alive

\* The metrics stream a node's process appends to: the log-producing stream
\* for a primary, the log-applying stream for a replica.
StreamOf(n) == IF n.role = "Primary" THEN LOG_SERIALIZER_CSV ELSE RECOVERY_MANAGER_CSV

\* ------------------------------------------------------------ get_servers

\* get_servers with the ReplicaNode put in front of the PrimaryNode.
get_servers_ReplicaFirst(test_type, replication_enabled) ==
  IF test_type = PRIMARY
  THEN (IF replication_enabled THEN <<Node("Replica")>> ELSE <<>>) \o <<Node("Primary")>>
  ELSE IF test_type = REPLICA THEN <<Node("Replica")>>
  ELSE <<>>

\* get_servers with a second PrimaryNode appended at line 113 in place of the
\* ReplicaNode.
get_servers_SecondPrimary(test_type, replication_enabled) ==
  IF test_type = PRIMARY
  THEN <<Node("Primary")>> \o (IF replication_enabled THEN <<Node("Primary")>> ELSE <<>>)
  ELSE IF test_type = REPLICA THEN <<Node("Replica")>>
  ELSE <<>>

\* Lines 107-116.
get_servers(test_type, replication_enabled) ==
  IF test_type = PRIMARY
  THEN <<Node("Primary")>> \o (IF replication_enabled THEN <<Node("Replica")>> ELSE <<>>)
  ELSE IF test_type = REPLICA THEN <<Node("Replica")>>
  ELSE <<>>

\* ----------------------------------------------------------- sync_servers

Primaries(s) == {k \in 1..Len(s) : s[k].role = "Primary"}
Replicas(s) == {k \in 1..Len(s) : s[k].role = "Replica"}

\* SyncDecision without the length check of line 125.
SyncDecision_NoLengthCheck(s) ==
  IF Cardinality(Primaries(s)) > 1 THEN "MultiplePrimaries"
  ELSE IF Cardinality(Primaries(s)) = 0 THEN "return"
  ELSE "wait"

\* SyncDecision with the test of line 130 off by one (> 2 for > 1).
SyncDecision_TwoPrimariesAllowed(s) ==
  IF Len(s) < 2 THEN "return"
  ELSE IF Cardinality(Primaries(s)) > 2 THEN "MultiplePrimaries"
  ELSE IF Cardinality(Primaries(s)) = 0 THEN "return"
  ELSE "wait"

\* SyncDecision without the early return of lines 132-133.
SyncDecision_NoPrimaryWaits(s) ==
  IF Len(s) < 2 THEN "return"
  ELSE IF Cardinality(Primaries(s)) > 1 THEN "MultiplePrimaries"
  ELSE "wait"

\* sync_servers up to its call of replica_sync: "return" (an early return),
\* "MultiplePrimaries" (the RuntimeError of line 131) or "wait" (replica_sync
\* is called with the primary and the replicas).
SyncDecision(s) ==
  IF Len(s) < 2 THEN "return"
  ELSE IF Cardinality(Primaries(s)) > 1 THEN "MultiplePrimaries"
  ELSE IF Cardinality(Primaries(s)) = 0 THEN "return"
  ELSE "wait"

\* SyncReplicas with only the first replica of the list handed over.
SyncReplicas_FirstOnly(s) ==
  {k \in Replicas(s) : \A j \in Replicas(s) : k <= j}

\* The replicas handed to replica_sync.
SyncReplicas(s) == Replicas(s)

\* A replica's outstanding lag behind the primary's last produced position.
Lag(n) == produced - n.applied

\* --------------------------------------------- aggregate_log_throughput

\* DropFirst with the wrong end cut off (iloc[:-1] for iloc[1:]).
DropFirst_DropLast(df) == IF Len(df) <= 1 THEN <<>> ELSE SubSeq(df, 1, Len(df) - 1)

\* DropFirst with the first row kept.
DropFirst_KeepAll(df) == df

\* df.iloc[1:]
DropFirst(df) == IF Len(df) <= 1 THEN <<>> ELSE SubSeq(df, 2, Len(df))

\* NotEnoughData with a single remaining row accepted (< 1 for <= 1).
NotEnoughData_EmptyOnly(df) == Len(df) < 1

\* NotEnoughData with the empty frame forgotten (== 1 for <= 1).
NotEnoughData_OnlyOne(df) == Len(df) = 1

\* df.shape[0] <= 1, on the frame without its first row
NotEnoughData(df) == Len(df) <= 1

\* Lines 159-161, on the frame without its first row.
TotalTime(df) ==
  (df[Len(df)].start_time + df[Len(df)].elapsed_time) - df[1].start_time

\* The outcome of aggregate_log_throughput on the records of the file it
\* reads. The throughput (total_records / total_time) * 1000 is kept as its
\* two operands, total_records and total_time; divided tells that line 166
\* was reached. On an empty frame df.iloc[-1] raises IndexError.
AggregateLogThroughput(records) ==
  LET df == DropFirst(records) IN
  IF NotEnoughData(df)
  THEN [kind |-> "NotEnoughData", used |-> Len(df), total_records |-> 0,
        total_time |-> 0, divided |-> FALSE]
  ELSE IF Len(df) = 0
  THEN [kind |-> "IndexError", used |-> 0, total_records |-> 0,
        total_time |-> 0, divided |-> FALSE]
  ELSE [kind |-> "Throughput", used |-> Len(df), total_records |-> SumRecords(df),
        total_time |-> TotalTime(df), divided |-> TRUE]

NoAggregate ==
  [kind |-> "None", used |-> 0, total_records |-> 0, total_time |-> 0, divided |-> FALSE]

\* ------------------------------------------------------------ metrics files

\* A record a server process appends: k-th sample of the file, tagged with
\* the phase it was written in.
SampleRecord(k, phase) ==
  [start_time |-> 100 * k, elapsed_time |-> 100, num_records |-> 5, phase |-> phase]

\* What a previous run may have left behind in a metrics file.
StaleRecord ==
  [start_time |-> 0, elapsed_time |-> 100, num_records |-> 5, phase |-> "stale"]

\* f"{test_type.value}-log-throughput-{int(time.time())}.csv", at time T.
DefaultOutputFile(test_type) ==
  IF test_type = PRIMARY THEN "primary-log-throughput-T.csv"
  ELSE "replica-log-throughput-T.csv"

OutputNames == {"out.csv"} \cup {DefaultOutputFile(t) : t \in TestTypes}

\* delete_metrics_file(f): the file is gone afterwards, whether or not it existed.
DeleteFile(exists, f) == exists \ {f}

\* --------------------------------------------------------------- Init

Init ==
  /\ METRICS_FILES = METRICS_FILES_INIT
  /\ fileExists \in SUBSET CandidateFiles
  /\ fileRecs = [f \in CandidateFiles |-> IF f \in fileExists THEN <<StaleRecord>> ELSE <<>>]
  /\ resultsDir \in BOOLEAN
  /\ resultNames = {}
  /\ resultRecs = [n \in OutputNames |-> <<>>]
  /\ pc = "idle"
  /\ idx = 1
  /\ testType = PRIMARY
  /\ replicationEnabled = FALSE
  /\ outputFile = None
  /\ metricsFile = None
  /\ servers = <<>>
  /\ produced = 0
  /\ polls = 0
  /\ syncOutcome = "none"
  /\ waitStarted = FALSE
  /\ calls = <<>>
  /\ logged = {}
  /\ outcome = "none"
  /\ aggregated = <<>>
  /\ aggInput = <<>>
  /\ aggOut = NoAggregate

\* ----------------------------------------------------------- log_throughput

\* The first position of a for loop over s, or the position after the loop
\* when s is empty.
EnterLoop(s, loopPc, afterPc) == IF Len(s) = 0 THEN afterPc ELSE loopPc

\* A call made by log_throughput: on a node of the server list, or (node 0)
\* on the files named.
Call(op, node) == [op |-> op, node |-> node, files |-> {}]

FileCall(op, files) == [op |-> op, node |-> 0, files |-> files]

\* RelevantMetricsFile with the test type ignored.
RelevantMetricsFile_AlwaysSerializer(test_type) == LOG_SERIALIZER_CSV

\* Line 50: the metrics file the test type makes relevant.
RelevantMetricsFile(test_type) ==
  IF test_type = PRIMARY THEN LOG_SERIALIZER_CSV ELSE RECOVERY_MANAGER_CSV

\* AfterSetupLoop with line 62 left out.
AfterSetupLoop_SkipClear(s) == EnterLoop(s, "run", "sync")

\* Lines 58-62: what follows the setup loop is delete_metrics_file.
AfterSetupLoop(s) == "clear"

\* Lines 47-55 on the server list get_servers built: the output name, the
\* relevant metrics file, its removal from the (aliased) module-level list.
Begin(test_type, replication_enabled, output_file, list) ==
  /\ pc = "idle"
  /\ testType' = test_type
  /\ replicationEnabled' = replication_enabled
  /\ outputFile' = IF output_file = None THEN DefaultOutputFile(test_type) ELSE output_file
  /\ metricsFile' = RelevantMetricsFile(test_type)
  /\ IF metricsFile' \in Range(METRICS_FILES)
     THEN /\ METRICS_FILES' = Remove(METRICS_FILES, metricsFile')
          /\ servers' = list
          /\ pc' = EnterLoop(list, "setup", AfterSetupLoop(list))
          /\ outcome' = outcome
     ELSE \* list.remove(x): x not in list
          /\ pc' = "done"
          /\ outcome' = "ValueError"
          /\ UNCHANGED <<METRICS_FILES, servers>>
  /\ idx' = 1
  /\ UNCHANGED <<fsVars, syncVars, calls, logged, aggregated, aggVars>>

Start ==
  \E test_type \in TestTypes, replication_enabled \in BOOLEAN, output_file \in OutputFileArgs :
    Begin(test_type, replication_enabled, output_file,
          get_servers(test_type, replication_enabled))

\* AfterSetupError with the handler falling through to line 62.
AfterSetupError_ClearAnyway(s) == "clear"

\* Lines 67-69: a RuntimeError of setup() enters the cleanup loop.
AfterSetupError(s) == "cleanup"

\* Lines 67-69: a RuntimeError of run() enters the cleanup loop.
AfterRunError(s) == "cleanup"

\* Line 59, one iteration of the loop of line 58.
Setup ==
  /\ pc = "setup"
  /\ \E res \in Outcomes, up \in BOOLEAN :
       /\ res = "ok" => up
       /\ servers' = [servers EXCEPT ![idx] = NodeSetup(@, res, up)]
       /\ calls' = Append(calls, Call("setup", idx))
       /\ IF res = "ok"
          THEN /\ pc' = IF idx < Len(servers) THEN "setup" ELSE AfterSetupLoop(servers)
               /\ idx' = IF idx < Len(servers) THEN idx + 1 ELSE 1
               /\ UNCHANGED <<logged, outcome>>
          ELSE IF res = "RuntimeError"
          THEN /\ pc' = AfterSetupError(servers)
               /\ idx' = 1
               /\ logged' = logged \cup {"error"}
               /\ outcome' = outcome
          ELSE /\ pc' = "done"
               /\ outcome' = res
               /\ UNCHANGED <<idx, logged>>
  /\ UNCHANGED <<METRICS_FILES, fsVars, argVars, syncVars, aggregated, aggVars>>

\* Line 62.
ClearMetrics ==
  /\ pc = "clear"
  /\ calls' = Append(calls, FileCall("delete_metrics_file", {metricsFile}))
  /\ \E res \in Outcomes :
       IF res = "ok"
       THEN /\ fileExists' = DeleteFile(fileExists, metricsFile)
            /\ fileRecs' = [fileRecs EXCEPT ![metricsFile] = <<>>]
            /\ pc' = EnterLoop(servers, "run", "sync")
            /\ UNCHANGED <<logged, outcome>>
       ELSE IF res = "RuntimeError"
       THEN /\ pc' = EnterLoop(servers, "cleanup", "done")
            /\ outcome' = IF Len(servers) = 0 THEN "returned" ELSE outcome
            /\ logged' = logged \cup {"error"}
            /\ UNCHANGED <<fileExists, fileRecs>>
       ELSE /\ pc' = "done"
            /\ outcome' = res
            /\ UNCHANGED <<fileExists, fileRecs, logged>>
  /\ idx' = 1
  /\ UNCHANGED <<METRICS_FILES, resultsDir, resultNames, resultRecs, argVars,
                 servers, syncVars, aggregated, aggVars>>

\* Line 65, one iteration of the loop of line 64.
Run ==
  /\ pc = "run"
  /\ \E res \in Outcomes, up \in BOOLEAN :
       /\ res = "ok" => up
       /\ servers' = [servers EXCEPT ![idx] = NodeRun(@, res, up)]
       /\ calls' = Append(calls, Call("run", idx))
       /\ IF res = "ok"
          THEN /\ pc' = IF idx < Len(servers) THEN "run" ELSE "sync"
               /\ idx' = IF idx < Len(servers) THEN idx + 1 ELSE 1
               /\ UNCHANGED <<logged, outcome>>
          ELSE IF res = "RuntimeError"
          THEN /\ pc' = AfterRunError(servers)
               /\ idx' = 1
               /\ logged' = logged \cup {"error"}
               /\ outcome' = outcome
          ELSE /\ pc' = "done"
               /\ outcome' = res
               /\ UNCHANGED <<idx, logged>>
  /\ UNCHANGED <<METRICS_FILES, fsVars, argVars, syncVars, aggregated, aggVars>>

\* TeardownOrder with the loop variable unused: every iteration tears down
\* the first server.
TeardownOrder_FirstOnly(s, k) == 1

\* TeardownOrder with the list walked from its end.
TeardownOrder_Reversed(s, k) == Len(s) + 1 - k

\* "for server in servers" of lines 69 and 79: the node the k-th iteration of
\* a teardown loop handles.
TeardownOrder(s, k) == k

\* Lines 69-72, one iteration of the loop of the RuntimeError handler: the
\* node is torn down when it reports is_running(); an exception of teardown()
\* leaves log_throughput.
Cleanup ==
  /\ pc = "cleanup"
  /\ LET i == TeardownOrder(servers, idx) IN
     IF IsRunning(servers[i])
     THEN \E res \in Outcomes, up \in BOOLEAN :
            /\ res = "ok" => ~up
            /\ res # "ok" => TeardownMayRaise(servers[i])
            /\ servers' = [servers EXCEPT ![i] = NodeTeardown(@, res, up)]
            /\ calls' = Append(calls, Call("teardown", i))
            /\ IF res = "ok"
               THEN /\ pc' = IF idx < Len(servers) THEN "cleanup" ELSE "done"
                    /\ idx' = IF idx < Len(servers) THEN idx + 1 ELSE idx
                    /\ outcome' = IF idx < Len(servers) THEN outcome ELSE "returned"
               ELSE /\ pc' = "done"
                    /\ outcome' = res
                    /\ idx' = idx
     ELSE /\ pc' = IF idx < Len(servers) THEN "cleanup" ELSE "done"
          /\ idx' = IF idx < Len(servers) THEN idx + 1 ELSE idx
          /\ outcome' = IF idx < Len(servers) THEN outcome ELSE "returned"
          /\ UNCHANGED <<servers, calls>>
  /\ UNCHANGED <<METRICS_FILES, fsVars, argVars, syncVars, logged, aggregated, aggVars>>

\* AfterSyncError with the second handler leaving log_throughput, as the
\* first one does.
AfterSyncError_Abort(s) == "done"

\* AfterSyncError with the second handler going back into the wait.
AfterSyncError_WaitAgain(s) == "syncwait"

\* Lines 76-79: an Exception of sync_servers is logged as a warning and
\* log_throughput goes on with the teardown loop.
AfterSyncError(s) == EnterLoop(s, "teardown", "mkdir")

\* ServersAfterSync with the sync step stopping the server processes.
ServersAfterSync_Stopped(s) == [k \in 1..Len(s) |-> [s[k] EXCEPT !.alive = FALSE]]

\* Lines 74-77 and 125-139: the sync step calls neither teardown() nor any
\* other method of a server, it only reads the list.
ServersAfterSync(s) == s

\* Lines 74-77 up to the call of replica_sync: sync_servers returns early,
\* raises (any Exception is logged as a warning) or calls replica_sync.
SyncServers ==
  /\ pc = "sync"
  /\ calls' = Append(calls, Call("sync_servers", 0))
  /\ LET d == SyncDecision(servers) IN
       /\ pc' = IF d = "wait" THEN "syncwait"
                ELSE IF d = "MultiplePrimaries" THEN AfterSyncError(servers)
                ELSE EnterLoop(servers, "teardown", "mkdir")
       /\ syncOutcome' = IF d = "wait" THEN syncOutcome ELSE d
       /\ waitStarted' = (d = "wait")
       /\ logged' = IF d = "MultiplePrimaries" THEN logged \cup {"warn"} ELSE logged
  /\ polls' = 0
  /\ idx' = 1
  /\ servers' = ServersAfterSync(servers)
  /\ UNCHANGED <<METRICS_FILES, fsVars, argVars, produced, outcome,
                 aggregated, aggVars>>

\* replica_sync(primary, replicas), one poll: it returns once every replica
\* handed to it has no lag left, and raises its timeout after MaxPolls polls;
\* the handler of line 76 logs the timeout as a warning.
ReplicaSyncPoll ==
  /\ pc = "syncwait"
  /\ IF \A r \in SyncReplicas(servers) : Lag(servers[r]) = 0
     THEN /\ syncOutcome' = "synced"
          /\ pc' = "teardown"
          /\ UNCHANGED <<polls, logged>>
     ELSE IF polls >= MaxPolls
     THEN /\ syncOutcome' = "Timeout"
          /\ logged' = logged \cup {"warn"}
          /\ pc' = AfterSyncError(servers)
          /\ polls' = polls
     ELSE /\ polls' = polls + 1
          /\ UNCHANGED <<syncOutcome, logged, pc>>
  /\ servers' = ServersAfterSync(servers)
  /\ UNCHANGED <<METRICS_FILES, fsVars, idx, argVars, produced, waitStarted,
                 calls, outcome, aggregated, aggVars>>

\* Line 80, one iteration of the loop of line 79: an exception of teardown()
\* leaves log_throughput.
Teardown ==
  /\ pc = "teardown"
  /\ \E res \in Outcomes, up \in BOOLEAN :
       LET i == TeardownOrder(servers, idx) IN
       /\ res = "ok" => ~up
       /\ res # "ok" => TeardownMayRaise(servers[i])
       /\ servers' = [servers EXCEPT ![i] = NodeTeardown(@, res, up)]
       /\ calls' = Append(calls, Call("teardown", i))
       /\ IF res = "ok"
          THEN /\ pc' = IF idx < Len(servers) THEN "teardown" ELSE "mkdir"
               /\ idx' = IF idx < Len(servers) THEN idx + 1 ELSE idx
               /\ outcome' = outcome
          ELSE /\ pc' = "done"
               /\ outcome' = res
               /\ idx' = idx
  /\ UNCHANGED <<METRICS_FILES, fsVars, argVars, syncVars, logged, aggregated, aggVars>>

\* Line 82.
CreateResultsDir ==
  /\ pc = "mkdir"
  /\ resultsDir' = TRUE
  /\ calls' = Append(calls, Call("create_results_dir", 0))
  /\ pc' = "delete_others"
  /\ UNCHANGED <<METRICS_FILES, fileExists, fileRecs, resultNames, resultRecs, idx,
                 argVars, servers, syncVars, logged, outcome, aggregated, aggVars>>

\* OtherMetricsFiles with the removal of line 52 lost: every candidate file.
OtherMetricsFiles_Everything == Range(METRICS_FILES) \cup {metricsFile}

\* OtherMetricsFiles with the recovery manager's file forgotten.
OtherMetricsFiles_NoRecovery == Range(METRICS_FILES) \ {RECOVERY_MANAGER_CSV}

\* Lines 51-52: other_metrics_files is the module-level list itself, without
\* the relevant file.
OtherMetricsFiles == Range(METRICS_FILES)

\* Line 84.
DeleteOthers ==
  /\ pc = "delete_others"
  /\ fileExists' = fileExists \ OtherMetricsFiles
  /\ fileRecs' = [f \in CandidateFiles |->
                    IF f \in OtherMetricsFiles THEN <<>> ELSE fileRecs[f]]
  /\ calls' = Append(calls, FileCall("delete_metrics_files", OtherMetricsFiles))
  /\ pc' = "move"
  /\ UNCHANGED <<METRICS_FILES, resultsDir, resultNames, resultRecs, idx, argVars,
                 servers, syncVars, logged, outcome, aggregated, aggVars>>

\* Line 85: the relevant metrics file, when there is one, becomes the file of
\* the output name in the results directory.
MoveMetrics ==
  /\ pc = "move"
  /\ IF metricsFile \in fileExists
     THEN /\ fileExists' = fileExists \ {metricsFile}
          /\ fileRecs' = [fileRecs EXCEPT ![metricsFile] = <<>>]
          /\ resultNames' = resultNames \cup {outputFile}
          /\ resultRecs' = [resultRecs EXCEPT ![outputFile] = fileRecs[metricsFile]]
     ELSE UNCHANGED <<fileExists, fileRecs, resultNames, resultRecs>>
  /\ calls' = Append(calls, FileCall("move_metrics_file_to_results_dir", {metricsFile}))
  /\ pc' = "aggregate"
  /\ UNCHANGED <<METRICS_FILES, resultsDir, idx, argVars, servers, syncVars, logged,
                 outcome, aggregated, aggVars>>

\* Line 87: aggregate_log_throughput(output_file). pd.read_csv raises when the
\* results directory holds no file of that name.
Aggregate ==
  /\ pc = "aggregate"
  /\ calls' = Append(calls, FileCall("aggregate_log_throughput", {outputFile}))
  /\ pc' = "done"
  /\ IF outputFile \in resultNames
     THEN LET r == AggregateLogThroughput(resultRecs[outputFile]) IN
          /\ aggregated' = Append(aggregated, [file |-> outputFile, result |-> r])
          /\ logged' = logged \cup {IF r.kind = "Throughput" THEN "info" ELSE "error"}
          /\ outcome' = IF r.kind = "IndexError" THEN "OtherError" ELSE "returned"
     ELSE /\ aggregated' = Append(aggregated, [file |-> outputFile, result |-> NoAggregate])
          /\ outcome' = "OtherError"
          /\ logged' = logged
  /\ UNCHANGED <<METRICS_FILES, fsVars, idx, argVars, servers, syncVars, aggVars>>

\* ------------------------------------------------------- the environment

\* When a server process writes a record: "setup" while line 62 is still
\* ahead, "startup" after it and before run() on the node, "load" after run().
WritePhase(n) ==
  IF pc \in {"setup", "clear"} THEN "setup"
  ELSE IF n.runs > 0 THEN "load" ELSE "startup"

\* A running server process appends a sample to its metrics stream.
WriteMetrics ==
  \E i \in 1..Len(servers) :
    LET f == StreamOf(servers[i]) IN
    /\ servers[i].alive
    /\ Len(fileRecs[f]) < MaxRecords
    /\ fileExists' = fileExists \cup {f}
    /\ fileRecs' = [fileRecs EXCEPT ![f] =
                      Append(@, SampleRecord(Len(@), WritePhase(servers[i])))]
    /\ UNCHANGED <<METRICS_FILES, resultsDir, resultNames, resultRecs, pc, idx, argVars,
                   servers, syncVars, calls, logged, outcome, aggregated, aggVars>>

\* A primary under load produces a log record.
Produce ==
  /\ \E i \in Primaries(servers) : servers[i].alive /\ servers[i].runs > 0
  /\ produced < MaxLog
  /\ produced' = produced + 1
  /\ UNCHANGED <<METRICS_FILES, fsVars, pc, idx, argVars, servers, polls, syncOutcome,
                 waitStarted, calls, logged, outcome, aggregated, aggVars>>

\* A running replica applies the next log record it is behind by.
Apply ==
  \E i \in Replicas(servers) :
    /\ servers[i].alive
    /\ servers[i].applied < produced
    /\ servers' = [servers EXCEPT ![i].applied = @ + 1]
    /\ UNCHANGED <<METRICS_FILES, fsVars, pc, idx, argVars, produced, polls, syncOutcome,
                   waitStarted, calls, logged, outcome, aggregated, aggVars>>

\* Everything but the entry into log_throughput.
Body ==
  \/ Setup
  \/ ClearMetrics
  \/ Run
  \/ Cleanup
  \/ SyncServers
  \/ ReplicaSyncPoll
  \/ Teardown
  \/ CreateResultsDir
  \/ DeleteOthers
  \/ MoveMetrics
  \/ Aggregate
  \/ WriteMetrics
  \/ Produce
  \/ Apply

Next == Start \/ Body

\* One invocation of log_throughput in a fresh process.
Spec == Init /\ [][Next]_vars

\* The steps of log_throughput itself, without those of the server processes.
Steps ==
  \/ Start
  \/ Setup
  \/ ClearMetrics
  \/ Run
  \/ Cleanup
  \/ SyncServers
  \/ ReplicaSyncPoll
  \/ Teardown
  \/ CreateResultsDir
  \/ DeleteOthers
  \/ MoveMetrics
  \/ Aggregate

\* One invocation in which every call log_throughput makes returns (or
\* raises): the single Python thread then takes its next step.
SpecFair == Spec /\ WF_vars(Steps)

\* ------------------------------------- the body on any list of servers

\* The server lists of up to MaxNodes nodes, whatever their roles.
AnyServers ==
  UNION {[1..n -> {Node("Primary"), Node("Replica")}] : n \in 0..MaxNodes}

\* log_throughput with get_servers replaced by a given list: lines 47-52 and
\* 57-87 as they are.
StartAny ==
  \E test_type \in TestTypes, list \in AnyServers :
    Begin(test_type, FALSE, "out.csv", list)

NextAny == StartAny \/ Body

\* A fresh process in a working directory without stale metrics files.
InitAny == Init /\ fileExists = {} /\ resultsDir

SpecAny == InitAny /\ [][NextAny]_vars

\* ------------------------------- several invocations in one process

\* log_throughput has returned or raised and the caller is about to call it
\* again in the same process: the module-level list and the files stay as the
\* invocation left them, everything local to the invocation is gone.
Again ==
  /\ pc = "done"
  /\ pc' = "idle"
  /\ idx' = 1
  /\ testType' = PRIMARY
  /\ replicationEnabled' = FALSE
  /\ outputFile' = None
  /\ metricsFile' = None
  /\ servers' = <<>>
  /\ produced' = 0
  /\ polls' = 0
  /\ syncOutcome' = "none"
  /\ waitStarted' = FALSE
  /\ calls' = <<>>
  /\ logged' = {}
  /\ outcome' = "none"
  /\ aggregated' = <<>>
  /\ UNCHANGED <<METRICS_FILES, fsVars, aggVars>>

NextRepeat == Next \/ Again

\* Any number of invocations, one after the other, in one process that
\* starts in a working directory without stale metrics files.
SpecRepeat == InitAny /\ [][NextRepeat]_vars

\* ------------------------------------------- sync_servers on its own

MaxSyncNodes == 3

\* A server as sync_servers expects it (line 122, "list of running
\* servers"): set up and run successfully.
RunningNode(role) == NodeRun(NodeSetup(Node(role), "ok", TRUE), "ok", TRUE)

\* The lists of up to MaxSyncNodes running servers, whatever their roles.
RunningServers ==
  UNION {[1..n -> {RunningNode("Primary"), RunningNode("Replica")}] : n \in 0..MaxSyncNodes}

\* The caller is about to call sync_servers(servers), line 75.
InitSync ==
  /\ METRICS_FILES = Remove(METRICS_FILES_INIT, LOG_SERIALIZER_CSV)
  /\ fileExists = {}
  /\ fileRecs = [f \in CandidateFiles |-> <<>>]
  /\ resultsDir = TRUE
  /\ resultNames = {}
  /\ resultRecs = [n \in OutputNames |-> <<>>]
  /\ pc = "sync"
  /\ idx = 1
  /\ testType = PRIMARY
  /\ replicationEnabled = FALSE
  /\ outputFile = "out.csv"
  /\ metricsFile = LOG_SERIALIZER_CSV
  /\ servers \in RunningServers
  /\ produced = 0
  /\ polls = 0
  /\ syncOutcome = "none"
  /\ waitStarted = FALSE
  /\ calls = <<>>
  /\ logged = {}
  /\ outcome = "none"
  /\ aggregated = <<>>
  /\ aggInput = <<>>
  /\ aggOut = NoAggregate

\* sync_servers and the replication traffic of the servers during it.
NextSync == SyncServers \/ ReplicaSyncPoll \/ Produce \/ Apply

SpecSync == InitSync /\ [][NextSync]_vars

\* --------------------------------- aggregate_log_throughput on its own

StartTimes == {0, 100, 300, 400}
ElapsedTimes == {0, 100}
NumRecords == {5, 45, 50}

MetricsRecords ==
  [start_time : StartTimes, elapsed_time : ElapsedTimes, num_records : NumRecords,
   phase : {"load"}]

\* The files handed to the aggregator: up to MaxRecords records.
AggInputs == UNION {[1..n -> MetricsRecords] : n \in 0..MaxRecords}

InitAgg ==
  /\ METRICS_FILES = METRICS_FILES_INIT
  /\ fileExists = {}
  /\ fileRecs = [f \in CandidateFiles |-> <<>>]
  /\ resultsDir = TRUE
  /\ resultNames = {}
  /\ resultRecs = [n \in OutputNames |-> <<>>]
  /\ pc = "agg"
  /\ idx = 1
  /\ testType = PRIMARY
  /\ replicationEnabled = FALSE
  /\ outputFile = None
  /\ metricsFile = None
  /\ servers = <<>>
  /\ produced = 0
  /\ polls = 0
  /\ syncOutcome = "none"
  /\ waitStarted = FALSE
  /\ calls = <<>>
  /\ logged = {}
  /\ outcome = "none"
  /\ aggregated = <<>>
  /\ aggInput \in AggInputs
  /\ aggOut = NoAggregate

\* aggregate_log_throughput(file_name) on a file holding aggInput.
AggregateAlone ==
  /\ pc = "agg"
  /\ aggOut' = AggregateLogThroughput(aggInput)
  /\ pc' = "agg_done"
  /\ UNCHANGED <<METRICS_FILES, fsVars, idx, argVars, servers, syncVars, calls, logged,
                 outcome, aggregated, aggInput>>

NextAgg == AggregateAlone

SpecAgg == InitAgg /\ [][NextAgg]_vars

\* ------------------------------------------------------------ properties

Done == pc = "done"

Nodes == 1..Len(servers)

\* The positions of the calls of op in the order of calls made.
CallsOf(op) == {k \in 1..Len(calls) : calls[k].op = op}

Called(op) == CallsOf(op) # {}

\* setup() returned normally for every node of a non-empty list.
AllSetupOk == servers # <<>> /\ \A i \in Nodes : servers[i].setup_ok

\* setup() was called on some node and raised.
SetupFailed == \E i \in Nodes : servers[i].setups > 0 /\ ~servers[i].setup_ok

\* The invocation ended inside a teardown() call, which raised.
TeardownRaised == Done /\ calls # <<>> /\ calls[Len(calls)].op = "teardown" /\ outcome \in Kinds

AllTornDown == \A i \in Nodes : servers[i].state = "TornDown" /\ servers[i].teardowns = 1

IsPrimaryReplica ==
  /\ Len(servers) = 2
  /\ servers[1].role = "Primary"
  /\ servers[2].role = "Replica"

\* C1 (as claimed): once setup() has succeeded for every Node, the invocation
\* never ends with a Node on which teardown() was not invoked exactly once,
\* whichever later step failed.
C1_TeardownExactlyOnce ==
  (Done /\ AllSetupOk) => \A i \in Nodes : servers[i].teardowns = 1

\* C2 (as claimed): when setup() raised for a Node of a multi-node run, the
\* invocation ends with teardown() invoked exactly once on every Node whose
\* setup() had completed, with no run() and no sync step.
C2_SetupFailureCleansUp ==
  (Done /\ Len(servers) >= 2 /\ SetupFailed) =>
     /\ \A i \in Nodes : servers[i].setup_ok => servers[i].teardowns = 1
     /\ \A i \in Nodes : servers[i].runs = 0
     /\ ~Called("run") /\ ~Called("sync_servers")

C4_SetupFailureReturns ==
  (Done /\ SetupFailed) =>
     /\ ~Called("create_results_dir")
     /\ resultNames = {}
     /\ aggregated = <<>>
     /\ outcome = "returned"

\* No step of the invocation failed: it ran to the end of log_throughput, the
\* replicas were in sync and nothing raised.
NoStepFailed ==
  /\ Done
  /\ outcome = "returned"
  /\ syncOutcome = "synced"
  /\ Len(aggregated) = 1

\* C5: a primary+replica run in which no step fails ends with both Nodes torn
\* down, the output file as the only file of the results directory, holding
\* the records of the relevant metrics file, and no candidate metrics file
\* left in the working directory.
C5_HappyPathEndState ==
  (IsPrimaryReplica /\ NoStepFailed) =>
     /\ AllTornDown
     /\ resultNames = {outputFile}
     /\ resultRecs[outputFile] # <<>>
     /\ \A f \in CandidateFiles : f \notin fileExists

\* C5's case: a primary+replica run without a failure that reported a
\* throughput.
C5_Witness ==
  /\ IsPrimaryReplica
  /\ NoStepFailed
  /\ aggregated[1].result.kind = "Throughput"

\* C6 (as claimed): teardown() calls are made in the reverse of the setup
\* order, the Primary's last.
C6_TeardownReverseOrder ==
  \A j, k \in CallsOf("teardown") : j < k => calls[j].node > calls[k].node

\* C6 (amended): teardown() calls are made in setup order, on the normal path
\* and in the cleanup of the RuntimeError handler alike: in a primary+replica
\* run the Primary's teardown() comes before the Replica's.
C6_TeardownSetupOrder ==
  /\ \A j, k \in CallsOf("teardown") : j < k => calls[j].node < calls[k].node
  /\ \A j, k \in CallsOf("setup") : j < k => calls[j].node < calls[k].node
  /\ IsPrimaryReplica =>
       \A j, k \in CallsOf("teardown") :
         (servers[calls[j].node].role = "Primary" /\ servers[calls[k].node].role = "Replica")
           => j < k

\* C6's case: the RuntimeError handler has torn down both Nodes of a
\* primary+replica run.
C6_Witness ==
  /\ IsPrimaryReplica
  /\ "error" \in logged
  /\ Cardinality(CallsOf("teardown")) = 2

StrictlyIncreasing(r) ==
  \A k \in 1..(Len(r) - 1) : r[k].start_time < r[k + 1].start_time

\* The sum of num_records over the records k..n.
RECURSIVE RecordsFrom(_, _)
RecordsFrom(r, k) ==
  IF k > Len(r) THEN 0 ELSE r[k].num_records + RecordsFrom(r, k + 1)

\* The claimed result on r: the first record discarded, the records summed
\* over 2..n, the time from start_time[2] to start_time[n] + elapsed_time[n].
ClaimedThroughput(r, out) ==
  /\ out.kind = "Throughput"
  /\ out.divided
  /\ out.used = Len(r) - 1
  /\ out.total_records = RecordsFrom(r, 2)
  /\ out.total_time = r[Len(r)].start_time + r[Len(r)].elapsed_time - r[2].start_time

ExampleRecords ==
  << [start_time |-> 0, elapsed_time |-> 100, num_records |-> 5, phase |-> "load"],
     [start_time |-> 100, elapsed_time |-> 100, num_records |-> 50, phase |-> "load"],
     [start_time |-> 300, elapsed_time |-> 100, num_records |-> 45, phase |-> "load"] >>

AggDone == pc = "agg_done"

\* C8 (as claimed): every sequence of at least 2 records with strictly
\* increasing start_time yields the throughput over the records 2..n.
C8_ThroughputFromTwoRecords ==
  (AggDone /\ Len(aggInput) >= 2 /\ StrictlyIncreasing(aggInput)) =>
     ClaimedThroughput(aggInput, aggOut)

\* C8 (amended): every sequence of at least 3 records with strictly increasing
\* start_time yields the throughput over the records 2..n (the example: 95
\* records over 300 microseconds); a sequence of exactly 2 records yields the
\* not-enough-data error.
C8_ThroughputFromThreeRecords ==
  (AggDone /\ StrictlyIncreasing(aggInput)) =>
     /\ Len(aggInput) >= 3 => ClaimedThroughput(aggInput, aggOut)
     /\ Len(aggInput) = 2 => (aggOut.kind = "NotEnoughData" /\ ~aggOut.divided)
     /\ aggInput = ExampleRecords =>
          (aggOut.total_records = 95 /\ aggOut.total_time = 300)

\* C8's case: the aggregator has run on the example.
C8_Witness == AggDone /\ aggInput = ExampleRecords /\ aggOut.kind = "Throughput"

\* C9: on fewer than 2 records the aggregator reports that there is not enough
\* data and returns before total_time is computed or anything is divided.
C9_TooFewRecords ==
  (AggDone /\ Len(aggInput) < 2) =>
     (aggOut.kind = "NotEnoughData" /\ ~aggOut.divided)

\* C9's case: the aggregator has run on a single record.
C9_Witness == AggDone /\ Len(aggInput) = 1 /\ aggOut.kind = "NotEnoughData"

\* C10 (as claimed): on a node list without a Replica sync_servers returns
\* early: it raises nothing and replica_sync is not called.
C10_NoReplicaReturns ==
  (Called("sync_servers") /\ Replicas(servers) = {}) =>
     (syncOutcome = "return" /\ ~waitStarted)

\* C10 (amended): on a node list without a Replica and with at most one
\* Primary sync_servers returns early, raising nothing and without calling
\* replica_sync; without a Replica and with two or more Primaries it raises
\* the multiple-primaries error, again without calling replica_sync.
C10_NoReplicaAtMostOnePrimaryReturns ==
  (Called("sync_servers") /\ Replicas(servers) = {}) =>
     /\ ~waitStarted
     /\ pc # "syncwait"
     /\ IF Cardinality(Primaries(servers)) <= 1
        THEN syncOutcome = "return" /\ "warn" \notin logged
        ELSE syncOutcome = "MultiplePrimaries"

\* C10's case: sync_servers has run on a lone Primary.
C10_Witness ==
  /\ Called("sync_servers")
  /\ Replicas(servers) = {}
  /\ Cardinality(Primaries(servers)) = 1
  /\ syncOutcome = "return"

\* C11: on every node list holding two (or more) Primary nodes sync_servers
\* raises the multiple-primaries error, and it does so before replica_sync,
\* the polling wait, is started.
C11_TwoPrimariesRaiseBeforeWait ==
  (Called("sync_servers") /\ Cardinality(Primaries(servers)) >= 2) =>
     /\ syncOutcome = "MultiplePrimaries"
     /\ ~waitStarted
     /\ pc # "syncwait"
     /\ polls = 0

\* C11's case: sync_servers has run on two Primaries and a Replica.
C11_Witness ==
  /\ Called("sync_servers")
  /\ Cardinality(Primaries(servers)) = 2
  /\ Replicas(servers) # {}
  /\ syncOutcome = "MultiplePrimaries"

\* C12: on every node list without a Primary, whatever the number of
\* Replicas, sync_servers returns at once: it raises nothing (nothing is
\* logged as a warning) and replica_sync is not started.
C12_NoPrimaryReturns ==
  (Called("sync_servers") /\ Primaries(servers) = {}) =>
     /\ syncOutcome = "return"
     /\ ~waitStarted
     /\ pc # "syncwait"
     /\ polls = 0
     /\ "warn" \notin logged

\* C12's case: sync_servers has run on two Replicas and no Primary.
C12_Witness ==
  /\ Called("sync_servers")
  /\ Primaries(servers) = {}
  /\ Cardinality(Replicas(servers)) >= 2
  /\ syncOutcome = "return"

\* C13: with exactly one Primary and at least one Replica sync_servers
\* starts the wait, and the step that ends the wait ends it normally exactly
\* when every Replica of the list has applied the Primary's last produced
\* position, and with the timeout error (logged as a warning) otherwise.
C13_WaitCoversEveryReplica ==
  [][(Cardinality(Primaries(servers)) = 1 /\ Replicas(servers) # {}) =>
       /\ (pc = "sync" /\ pc' # "sync") => (pc' = "syncwait" /\ waitStarted')
       /\ (pc = "syncwait" /\ pc' # "syncwait") =>
            IF \A r \in Replicas(servers) : servers[r].applied = produced
            THEN syncOutcome' = "synced" /\ logged' = logged
            ELSE syncOutcome' = "Timeout" /\ "warn" \in logged'
       /\ (syncOutcome # "synced" /\ syncOutcome' = "synced") => pc = "syncwait"]_vars

\* C13's case: the wait has ended normally on two Replicas that both caught
\* up with a Primary that had produced log.
C13_Witness ==
  /\ syncOutcome = "synced"
  /\ Cardinality(Primaries(servers)) = 1
  /\ Cardinality(Replicas(servers)) = 2
  /\ produced > 0
  /\ \A r \in Replicas(servers) : servers[r].applied = produced

\* The calls other than teardown(), by position.
NonTeardownCalls == {k \in 1..Len(calls) : calls[k].op # "teardown"}

\* The last call made inside the try block of lines 57-65.
LastTryCall == calls[CHOOSE k \in NonTeardownCalls : \A j \in NonTeardownCalls : j <= k]

\* The invocation ended inside lines 57-72: the try block was left through
\* an exception of setup() or run().
EndedBySetupOrRun ==
  /\ Done
  /\ ~Called("sync_servers")
  /\ NonTeardownCalls # {}
  /\ LastTryCall.op \in {"setup", "run"}

\* C14 (as claimed): whenever the invocation ends because setup() or run()
\* of some Node failed, with whatever kind of error, teardown() has been
\* attempted on every Node whose setup() was called, the failing Node
\* included.
C14_FailureTearsDownEveryStartedNode ==
  EndedBySetupOrRun =>
     \A i \in Nodes : servers[i].setups > 0 => servers[i].teardowns > 0

\* C15 (as claimed): cleanup after a setup() or run() failure is best
\* effort: a teardown() that raises during it is not re-raised out of
\* log_throughput, which returns, and no Node that is still running is left
\* without a teardown attempt.
C15_CleanupIsBestEffort ==
  (EndedBySetupOrRun /\ "error" \in logged) =>
     /\ outcome = "returned"
     /\ \A i \in Nodes : servers[i].alive => servers[i].teardowns > 0

\* C16 (as claimed): the relevant metrics file is cleared before setup() is
\* invoked on any Node.
C16_ClearBeforeSetup ==
  \A j \in CallsOf("setup") : \E k \in CallsOf("delete_metrics_file") : k < j

\* C16 (amended): the relevant metrics file is cleared after setup() has
\* returned for every Node and before run() is invoked on any Node: every
\* clearing follows one setup() call per Node, every run() follows a
\* clearing, and once a Node is run the file holds no stale record.
C16_ClearAfterSetupBeforeRun ==
  /\ \A k \in CallsOf("delete_metrics_file") :
       /\ calls[k].files = {metricsFile}
       /\ \A i \in Nodes : \E j \in CallsOf("setup") : j < k /\ calls[j].node = i
       /\ \A j \in CallsOf("run") : k < j
  /\ \A j \in CallsOf("run") : \E k \in CallsOf("delete_metrics_file") : k < j
  /\ Called("run") => \A n \in 1..Len(fileRecs[metricsFile]) :
                         fileRecs[metricsFile][n].phase # "stale"

\* C16's case: a stale relevant metrics file was there, two Nodes have been
\* set up, the file has been cleared and a Node has been run.
C16_Witness ==
  /\ Len(servers) = 2
  /\ Called("delete_metrics_file")
  /\ Called("run")
  /\ metricsFile \in fileExists

\* C17: one metrics file is relevant per invocation and the test type alone
\* determines it: the log serializer's file for test type primary (with or
\* without a Replica alongside), the recovery manager's for test type
\* replica. The file cleared and the file relocated are this file, the file
\* aggregated is the one it was relocated to, and it is never among the
\* files deleted as "other".
C17_OneRelevantMetricsFile ==
  (pc # "idle" /\ outcome # "ValueError") =>
     /\ metricsFile = IF testType = PRIMARY THEN LOG_SERIALIZER_CSV ELSE RECOVERY_MANAGER_CSV
     /\ \A k \in CallsOf("delete_metrics_file") : calls[k].files = {metricsFile}
     /\ \A k \in CallsOf("move_metrics_file_to_results_dir") : calls[k].files = {metricsFile}
     /\ \A k \in CallsOf("delete_metrics_files") : metricsFile \notin calls[k].files
     /\ \A k \in CallsOf("aggregate_log_throughput") : calls[k].files = {outputFile}
     /\ \A n \in 1..Len(aggregated) :
          /\ aggregated[n].file = outputFile
          /\ aggregated[n].result # NoAggregate =>
               aggregated[n].result = AggregateLogThroughput(resultRecs[outputFile])

\* C17's case: a primary test with a Replica alongside has cleared, relocated
\* and aggregated its file and deleted the others, the Replica's among them.
C17_Witness ==
  /\ IsPrimaryReplica
  /\ Done
  /\ Called("delete_metrics_file")
  /\ \E k \in CallsOf("delete_metrics_files") : RECOVERY_MANAGER_CSV \in calls[k].files
  /\ Len(aggregated) = 1
  /\ aggregated[1].result.kind = "Throughput"

\* The roles of the server list, in order.
RolesOf(s) == [k \in 1..Len(s) |-> s[k].role]

\* C18: get_servers resolves every configuration to one of three lists:
\* [Primary] for test type primary without replication, [Primary, Replica]
\* for test type primary with replication, [Replica] for test type replica
\* whatever the replication flag. The list is never empty and never holds
\* more than one Primary, so sync_servers never raises its multiple-primaries
\* error in an invocation of log_throughput.
C18_GetServersLists ==
  (pc # "idle" /\ outcome # "ValueError") =>
     /\ RolesOf(servers) = IF testType = REPLICA THEN <<"Replica">>
                           ELSE IF replicationEnabled THEN <<"Primary", "Replica">>
                           ELSE <<"Primary">>
     /\ servers # <<>>
     /\ Cardinality(Primaries(servers)) <= 1
     /\ syncOutcome # "MultiplePrimaries"

\* C18's case: sync_servers has been called on the list get_servers built
\* for a primary test with replication.
C18_Witness ==
  /\ Called("sync_servers")
  /\ testType = PRIMARY
  /\ replicationEnabled
  /\ RolesOf(servers) = <<"Primary", "Replica">>

\* C19: while log_throughput relocates the relevant metrics file or reads
\* the relocated file, and ever after, no Node is running: every Node of the
\* list has been torn down and its process is gone.
C19_NoNodeRunsWhileFileIsRead ==
  (\/ pc \in {"move", "aggregate"}
   \/ Called("move_metrics_file_to_results_dir")
   \/ Called("aggregate_log_throughput")) =>
     \A i \in Nodes : /\ ~IsRunning(servers[i])
                      /\ servers[i].state = "TornDown"
                      /\ servers[i].teardowns > 0

\* C19's case: a Primary and a Replica have both run and written records,
\* and the file is about to be read by the aggregator.
C19_Witness ==
  /\ pc = "aggregate"
  /\ IsPrimaryReplica
  /\ \A i \in Nodes : servers[i].runs > 0
  /\ outputFile \in resultNames
  /\ Len(resultRecs[outputFile]) >= 2

\* C20 (as claimed): the lifecycle calls on each Node only move forward:
\* setup() at most once, run() only after that Node's setup() succeeded, no
\* setup() or run() after its teardown(), and when the invocation is over a
\* Node that failed in setup() or run() has received a teardown().
C20_LifecycleMovesForward ==
  \A i \in Nodes :
     /\ servers[i].setups <= 1
     /\ servers[i].runs > 0 => servers[i].setup_ok
     /\ \A t \in CallsOf("teardown"), c \in CallsOf("setup") \cup CallsOf("run") :
          (calls[t].node = i /\ calls[c].node = i) => c < t
     /\ (Done /\ servers[i].state = "Failed") => servers[i].teardowns > 0

\* C21: every invocation of log_throughput in which each call returns or
\* raises eventually ends, also when a Replica never catches up with the
\* Primary: the sync wait gives up after its timeout.
C21_InvocationTerminates == <>Done

\* C21's case: the invocation is over although the Replica never caught up
\* with the Primary and the wait timed out.
C21_Witness ==
  /\ Done
  /\ syncOutcome = "Timeout"
  /\ \E r \in Replicas(servers) : servers[r].applied < produced

\* C22: the sync step never stops a Node: from the call of sync_servers to
\* its end, however it ends, a running Node stays running, and from then on
\* a running Node stops only in a step that is a teardown() call on it.
C22_SyncStopsNoNode ==
  [][(pc \in {"sync", "syncwait"} \/ Called("sync_servers")) =>
       \A i \in Nodes :
          (IsRunning(servers[i]) /\ ~IsRunning(servers'[i])) =>
             /\ pc \notin {"sync", "syncwait"}
             /\ calls' = Append(calls, Call("teardown", i))]_vars

\* C22's case: the wait has ended with the timeout and both Nodes, running
\* when sync_servers was called, are still running before the first
\* teardown().
C22_Witness ==
  /\ pc = "teardown"
  /\ idx = 1
  /\ syncOutcome = "Timeout"
  /\ IsPrimaryReplica
  /\ \A i \in Nodes : IsRunning(servers[i]) /\ servers[i].teardowns = 0

\* C23: when the relocated metrics file holds too few records for the
\* aggregator (at most two, the first being dropped), log_throughput still
\* returns normally: every Node is torn down, the relocated file is in the
\* results directory under the output name, the shortage is logged as an
\* error and no throughput is reported.
C23_TooFewRecordsNotFatal ==
  (/\ Done
   /\ Called("aggregate_log_throughput")
   /\ outputFile \in resultNames
   /\ Len(resultRecs[outputFile]) <= 2) =>
     /\ outcome = "returned"
     /\ AllTornDown
     /\ Len(aggregated) = 1
     /\ aggregated[1].result.kind = "NotEnoughData"
     /\ "error" \in logged
     /\ "info" \notin logged

\* C23's case: the invocation is over with a relocated file of two records.
C23_Witness ==
  /\ Done
  /\ Called("aggregate_log_throughput")
  /\ outputFile \in resultNames
  /\ Len(resultRecs[outputFile]) = 2
  /\ outcome = "returned"

\* op was called on a Primary at position a and on a Replica at position b
\* of the calls made.
OnPrimaryThenReplica(op, a, b) ==
  /\ calls[a].op = op /\ servers[calls[a].node].role = "Primary"
  /\ calls[b].op = op /\ servers[calls[b].node].role = "Replica"

\* C24: the phases are barriers across Nodes: when run() is called on a
\* Node, setup() has been called on every Node before and has succeeded;
\* when sync_servers is called, run() has been called on every Node before
\* and has returned; no teardown() is called before the sync step has ended;
\* and setup() and run() reach the Primary before the Replica.
C24_PhasesAreBarriers ==
  /\ \A r \in CallsOf("run") : \A i \in Nodes :
       /\ servers[i].setup_ok
       /\ \E j \in CallsOf("setup") : j < r /\ calls[j].node = i
  /\ \A s \in CallsOf("sync_servers") : \A i \in Nodes :
       /\ servers[i].runs = 1
       /\ \E j \in CallsOf("run") : j < s /\ calls[j].node = i
  /\ \A t \in CallsOf("teardown"), s \in CallsOf("sync_servers") : s < t
  /\ pc \in {"sync", "syncwait"} => ~Called("teardown")
  /\ \A a, b \in 1..Len(calls) :
       (OnPrimaryThenReplica("setup", a, b) \/ OnPrimaryThenReplica("run", a, b)) => a < b

\* C24's case: a Primary and a Replica have been through setup, run and the
\* sync step, and the teardown phase has begun.
C24_Witness ==
  /\ IsPrimaryReplica
  /\ Cardinality(CallsOf("setup")) = 2
  /\ Cardinality(CallsOf("run")) = 2
  /\ Called("sync_servers")
  /\ Called("teardown")

DeleteCount == Cardinality(CallsOf("delete_metrics_file"))

\* C25: the relevant metrics file is deleted once, after setup() has
\* succeeded on every Node and before run() on any Node, and not at all when
\* a setup() failed; no record written by a server process before that
\* deletion reaches the relocated file.
C25_DeletedOnceBetweenSetupAndRun ==
  /\ DeleteCount <= 1
  /\ SetupFailed => DeleteCount = 0
  /\ (AllSetupOk /\ pc \notin {"setup", "clear"}) => DeleteCount = 1
  /\ \A k \in CallsOf("delete_metrics_file") :
       /\ \A i \in Nodes : servers[i].setup_ok
       /\ \A j \in CallsOf("setup") \cup CallsOf("run") : (j < k) <=> (calls[j].op = "setup")
  /\ outputFile \in resultNames =>
       \A n \in 1..Len(resultRecs[outputFile]) :
          resultRecs[outputFile][n].phase \notin {"stale", "setup"}

\* C25's case: a Replica's process wrote a record while the Nodes were set
\* up, the Primary's file has been deleted once since, and the Primary's
\* process has written to it anew after a run() call.
C25_Witness ==
  /\ IsPrimaryReplica
  /\ DeleteCount = 1
  /\ \E n \in 1..Len(fileRecs[RECOVERY_MANAGER_CSV]) :
        fileRecs[RECOVERY_MANAGER_CSV][n].phase = "setup"
  /\ Called("run")
  /\ metricsFile \in fileExists

\* Some run() call raised: it was the last call of the try block and was
\* followed by the handler's teardown() calls or by nothing at all.
RunRaised ==
  \E k \in CallsOf("run") :
     \/ k = Len(calls) /\ pc \in {"cleanup", "done"}
     \/ k < Len(calls) /\ calls[k + 1].op = "teardown"

\* C26 (as claimed): when run() raises for a Node, whatever the error, the
\* invocation ends with a teardown() on every Node that is running, with no
\* run() on the Nodes after the failing one, without the sync step and
\* without a result file or a throughput.
C26_RunFailureCleansUp ==
  (Done /\ RunRaised) =>
     /\ \A i \in Nodes : IsRunning(servers[i]) => servers[i].teardowns > 0
     /\ \A i \in Nodes : servers[i].runs <= 1
     /\ \A j, k \in CallsOf("run") : j < k => calls[j].node < calls[k].node
     /\ \A k \in 1..Len(calls) : calls[k].op \in {"setup", "delete_metrics_file", "run", "teardown"}
     /\ resultNames = {}
     /\ aggregated = <<>>
     /\ "info" \notin logged

\* C27 (as claimed): log_throughput leaves the process-wide list of
\* candidate metrics files as it found it, so that in any sequence of
\* invocations in one process each invocation starts normally and deletes
\* exactly the candidate files other than its own relevant file.
C27_CandidateListUnchanged ==
  /\ pc \in {"idle", "done"} => METRICS_FILES = METRICS_FILES_INIT
  /\ outcome # "ValueError"
  /\ \A k \in CallsOf("delete_metrics_files") :
       calls[k].files = Range(METRICS_FILES_INIT) \ {metricsFile}

\* run() has been called on some Node.
RunStarted == \E i \in Nodes : servers[i].runs > 0

\* C28: once the run phase has started no step of log_throughput deletes or
\* truncates the relevant metrics file: every step either keeps its records
\* as a prefix of what it holds next, or is the relocation, which puts all
\* of them, in order, under the output name in the results directory; the
\* relocated records then stay as they are and are what the aggregator
\* reads.
C28_LoadRecordsReachAggregator ==
  [][RunStarted =>
       LET old == fileRecs[metricsFile]
           new == fileRecs'[metricsFile]
       IN /\ \/ /\ Len(new) >= Len(old)
                /\ SubSeq(new, 1, Len(old)) = old
             \/ /\ pc = "move"
                /\ outputFile \in resultNames'
                /\ resultRecs'[outputFile] = old
          /\ Called("move_metrics_file_to_results_dir") => resultRecs' = resultRecs
          /\ Len(aggregated') > Len(aggregated) =>
               /\ outputFile \in resultNames =>
                    aggregated'[1].result = AggregateLogThroughput(resultRecs[outputFile])
               /\ \A n \in 1..Len(fileRecs[metricsFile]) :
                    fileRecs[metricsFile][n].phase # "load"]_vars

\* C28's case: the Primary wrote records under load next to a Replica, the
\* other files have been deleted, and the aggregator has read the relocated
\* file with those records in it.
C28_Witness ==
  /\ IsPrimaryReplica
  /\ Called("delete_metrics_files")
  /\ Len(aggregated) = 1
  /\ outputFile \in resultNames
  /\ Cardinality({n \in 1..Len(resultRecs[outputFile]) :
                    resultRecs[outputFile][n].phase = "load"}) >= 2

\* C29: the outcome of aggregate_log_throughput does not depend on the first
\* record: replacing the first record of the input by any other record gives
\* the same outcome, the same throughput or the same report of too little
\* data.
C29_FirstRecordIrrelevant ==
  (AggDone /\ Len(aggInput) >= 1) =>
     \A r \in MetricsRecords :
        AggregateLogThroughput([aggInput EXCEPT ![1] = r]) = aggOut

\* C29's case: a throughput has been computed from a file of three records
\* whose first record carries the largest count.
C29_Witness ==
  /\ AggDone
  /\ Len(aggInput) = 3
  /\ aggOut.kind = "Throughput"
  /\ aggInput[1].num_records = 50
  /\ aggInput[2].num_records = 5

\* The start_time of the records never decreases.
NonDecreasing(r) == \A k \in 1..(Len(r) - 1) : r[k].start_time <= r[k + 1].start_time

\* C30 (as claimed): whenever the aggregator reaches its division on records
\* with non-decreasing start_time and non-negative elapsed_time, total_time
\* is strictly positive.
C30_TotalTimePositive ==
  (/\ AggDone
   /\ NonDecreasing(aggInput)
   /\ \A k \in 1..Len(aggInput) : aggInput[k].elapsed_time >= 0
   /\ aggOut.divided) => aggOut.total_time > 0

====
